---- MODULE Spec2Model ----
(***************************************************************************)
(* Model of src/ai_real_estate_agent.py: PropertyFindingAgent.find_properties *)
(* (the request-construction / two-stage remote pipeline) and the Streamlit *)
(* script main() that drives it across reruns of one session.               *)
(*                                                                          *)
(* Text is modelled as a sequence of tokens: an interpolated value is the   *)
(* sequence of its characters, a literal piece of a template is one token.  *)
(* A multi-line string is a sequence of lines, each a sequence of tokens.   *)
(* Only ASCII is used: the pictographs in front of the report headers are   *)
(* left out of the header tokens.                                           *)
(***************************************************************************)
EXTENDS Integers, Sequences, FiniteSets, TLC

VARIABLES
    pc,            \* position of find_properties: idle/extracting/summarizing/returned/raised
    args,          \* the arguments of the current invocation
    pro_type,      \* the mapped category/type code (line 76-78)
    urls,          \* the URL list (line 79-85)
    prompt,        \* the extraction prompt (line 93-110)
    raw_response,  \* what firecrawl.extract gave back (line 112)
    properties,    \* the normalised record sequence (line 122-125)
    calls,         \* the remote calls issued by this invocation, with payload
    log,           \* the remote-call events of this invocation, in order
    result,        \* the value find_properties returned (line 175)
    error,         \* the exception find_properties raised, "" if none
    env,           \* os.environ: FIRECRAWL_API_KEY / OPENAI_API_KEY (line 197-198)
    widgets,       \* the two sidebar text inputs (line 206-217)
    agent,         \* st.session_state.property_agent (line 219-226)
    ui             \* what the current script run of main() did and showed

coreVars == <<pc, args, pro_type, urls, prompt, raw_response, properties,
              calls, log, result, error>>
uiVars == <<env, widgets, agent, ui>>
vars == <<pc, args, pro_type, urls, prompt, raw_response, properties,
          calls, log, result, error, env, widgets, agent, ui>>

(***************************************************************************)
(* Bounds and value sets                                                    *)
(***************************************************************************)
\* Longest record sequence the extraction service supplies in the model.
MaxRecords == 2

\* Python's None, as a value outside every numeric widget range.
None == -1

\* Opaque property records; a sequence may repeat one (no identity/key).
Records == {"r1", "r2"}

RecordSeqs == UNION {[1..n -> Records] : n \in 0..MaxRecords}

Cities == {<<>>, <<"P", "u">>, <<"u", "P">>}

Prices == {1000, 500000}

Categories == {"Residential", "Commercial", "Industrial"}

Types == {"HDB", "Condo", "Landed", "Bungalow"}

MinSizes == {None, 0, 500}

MaxSizes == {None, 0, 1000}

Bedrooms == {None, 0, 2}

Contents == {"report"}

(***************************************************************************)
(* Pure helpers: Python's str(), truthiness, str.lower()                    *)
(***************************************************************************)
DigitChar(d) ==
    <<"0", "1", "2", "3", "4", "5", "6", "7", "8", "9">>[d + 1]

RECURSIVE Digits(_)
Digits(n) ==
    IF n < 10 THEN <<DigitChar(n)>>
    ELSE Digits(n \div 10) \o <<DigitChar(n % 10)>>

\* f"{v}" of an int or of None.
PyStr(v) ==
    IF v = None THEN <<"N", "o", "n", "e">> ELSE Digits(v)

\* bool(v) of an int or of None: None and 0 are falsy.
Truthy(v) ==
    v # None /\ v # 0

LowerChar(c) ==
    CASE c = "P" -> "p"
      [] c = "U" -> "u"
      [] OTHER -> c

\* A mutant of Lower: the location is interpolated as typed.
Lower_Identity(s) ==
    s

\* str.lower()
Lower(s) ==
    [i \in 1..Len(s) |-> LowerChar(s[i])]

(***************************************************************************)
(* Category/type mapper (line 67-78)                                        *)
(***************************************************************************)
\* A mutant of property_map: a third category silently mapped.
property_map_Extra ==
    [c \in {"Residential", "Commercial", "Industrial"} |->
        IF c = "Residential"
        THEN [isDict |-> TRUE,
              sub |-> [t \in {"HDB", "Condo", "Landed"} |->
                          CASE t = "HDB" -> <<"H">>
                            [] t = "Condo" -> <<"N">>
                            [] t = "Landed" -> <<"L">>],
              code |-> <<>>]
        ELSE [isDict |-> FALSE,
              sub |-> [t \in {} |-> <<>>],
              code |-> <<"c", "o", "m">>]]

\* The dict of line 67-74: a value is either a nested dict or a code.
property_map ==
    [c \in {"Residential", "Commercial"} |->
        IF c = "Residential"
        THEN [isDict |-> TRUE,
              sub |-> [t \in {"HDB", "Condo", "Landed"} |->
                          CASE t = "HDB" -> <<"H">>
                            [] t = "Condo" -> <<"N">>
                            [] t = "Landed" -> <<"L">>],
              code |-> <<>>]
        ELSE [isDict |-> FALSE,
              sub |-> [t \in {} |-> <<>>],
              code |-> <<"c", "o", "m">>]]

\* property_map[property_category] raises KeyError (line 76).
CategoryRaises(category) ==
    category \notin DOMAIN property_map

\* A mutant of DictGet: the default is the Condo code.
DictGet_DefaultN(d, key) ==
    IF key \in DOMAIN d THEN d[key] ELSE <<"N">>

\* pro_type.get(property_type, "H") (line 78)
DictGet(d, key) ==
    IF key \in DOMAIN d THEN d[key] ELSE <<"H">>

\* Line 76-78, for a category that is a key of property_map.
MapProType(category, type) ==
    LET entry == property_map[category]
    IN  IF entry.isDict THEN DictGet(entry.sub, type) ELSE entry.code

(***************************************************************************)
(* URL builder (line 64, 79-85)                                             *)
(***************************************************************************)
UrlHead == "https://www.propertyguru.com.sg/property-for-sale?listingType=sale&page=1&isCommercial=false"

UrlKeys ==
    {UrlHead, "&maxPrice=", "&hdbEstate=1", "&_freetextDisplay=", "&bedrooms=",
     "&minSize=", "&maxSize=", "&propertyTypeGroup="}

\* The one f-string of line 80.
BuildUrl(a, code) ==
    <<UrlHead, "&maxPrice=">> \o PyStr(a.max_price)
    \o <<"&hdbEstate=1", "&_freetextDisplay=">> \o Lower(a.city)
    \o <<"&bedrooms=">> \o PyStr(a.bedrooms)
    \o <<"&minSize=">> \o PyStr(a.min_size)
    \o <<"&maxSize=">> \o PyStr(a.max_size)
    \o <<"&propertyTypeGroup=">> \o code

\* The list of line 79-85: one live entry, the others are comments.
BuildUrls(a, code) ==
    <<BuildUrl(a, code)>>

(***************************************************************************)
(* Extraction prompt builder (line 87-110)                                  *)
(***************************************************************************)
\* Line 87-91
TypePrompt(type) ==
    CASE type = "HDB" -> "HDB Flats"
      [] type = "Condo" -> "Condominiums"
      [] type = "Landed" -> "Landed Houses"
      [] OTHER -> "HDB Flats"

\* The triple-quoted f-string of line 93-103, line by line; it ends with a
\* line of blanks, so every text appended with a leading newline is a new line.
BasePrompt(a) ==
    LET tp == TypePrompt(a.property_type)
    IN  << <<"Extract ONLY 10 OR LESS different ", a.property_category, " ", tp, " from ">>
              \o a.city \o <<" that cost less than ">> \o PyStr(a.max_price) \o <<" SGD.">>,
           <<"        ">>,
           <<"        Requirements:">>,
           <<"        - Property Category: ", a.property_category, " properties only">>,
           <<"        - Property Type: ", tp, " only">>,
           <<"        - Location: ">> \o a.city,
           <<"        - Maximum Price: ">> \o PyStr(a.max_price) \o <<" SGD">>,
           <<"        - Include complete property details with exact location">>,
           <<"        - IMPORTANT: Return data for at least 3 different properties. MAXIMUM 10.">>,
           <<"        - Format as a list of properties with their respective details">>,
           <<"        ">> >>

MinSizeLine(v) ==
    <<"- Minimum Size: ">> \o PyStr(v) \o <<" sq ft">>

MaxSizeLine(v) ==
    <<"- Maximum Size: ">> \o PyStr(v) \o <<" sq ft">>

BedroomsLine(v) ==
    <<"- Number of Bedrooms: ">> \o PyStr(v)

\* Line 105-110: the three `if x:` appends.
ExtraLines(a) ==
    (IF Truthy(a.min_size) THEN <<MinSizeLine(a.min_size)>> ELSE <<>>)
    \o (IF Truthy(a.max_size) THEN <<MaxSizeLine(a.max_size)>> ELSE <<>>)
    \o (IF Truthy(a.bedrooms) THEN <<BedroomsLine(a.bedrooms)>> ELSE <<>>)

ExtractionPrompt(a) ==
    BasePrompt(a) \o ExtraLines(a)

(***************************************************************************)
(* Extraction response and its normalisation (line 112-125)                 *)
(***************************************************************************)
\* What firecrawl.extract can give back: a value that is no dict, or a dict
\* with or without a truthy 'success', with or without 'data', whose 'data'
\* has or lacks 'properties'.
NonDict ==
    [isDict |-> FALSE, success |-> FALSE, hasData |-> FALSE, hasProps |-> FALSE,
     props |-> <<>>]

Responses ==
    {NonDict}
    \cup {[isDict |-> TRUE, success |-> s, hasData |-> FALSE, hasProps |-> FALSE,
           props |-> <<>>] : s \in BOOLEAN}
    \cup {[isDict |-> TRUE, success |-> s, hasData |-> TRUE, hasProps |-> FALSE,
           props |-> <<>>] : s \in BOOLEAN}
    \cup {[isDict |-> TRUE, success |-> s, hasData |-> TRUE, hasProps |-> TRUE,
           props |-> ps] : s \in BOOLEAN, ps \in RecordSeqs}

\* No response yet.
NoResponse ==
    [isDict |-> FALSE, success |-> FALSE, hasData |-> FALSE, hasProps |-> FALSE,
     props |-> <<"pending">>]

\* A mutant of SuccessBranch: the success flag is not looked at.
SuccessBranch_NoFlag(resp) ==
    resp.isDict

\* The condition of line 122.
SuccessBranch(resp) ==
    resp.isDict /\ resp.success

\* raw_response['data'] raises KeyError (line 123).
NormalizeRaises(resp) ==
    SuccessBranch(resp) /\ ~resp.hasData

\* Line 122-125, when line 123 does not raise.
Normalize(resp) ==
    IF SuccessBranch(resp)
    THEN (IF resp.hasProps THEN resp.props ELSE <<>>)
    ELSE <<>>

\* A mutant of AfterExtract: nothing to summarise ends the invocation.
AfterExtract_ShortCircuit(resp) ==
    IF NormalizeRaises(resp) THEN "raised"
    ELSE IF Normalize(resp) = <<>> THEN "returned"
    ELSE "summarizing"

\* Where find_properties stands once line 112-127 have run on a response:
\* nothing lies between the normalisation and agent.run (line 127-130).
AfterExtract(resp) ==
    IF NormalizeRaises(resp) THEN "raised" ELSE "summarizing"

\* A mutant of ErrorCaught: the extraction call wrapped in try/except.
ErrorCaught_Extraction(stage) ==
    stage = "extract"

\* Whether find_properties catches an exception of a remote call: neither
\* line 112-118 nor line 130-173 stands in a try block.
ErrorCaught(stage) ==
    FALSE

(***************************************************************************)
(* Summarization prompt builder (line 130-173)                              *)
(***************************************************************************)
RECURSIVE JoinRecords(_)
JoinRecords(ps) ==
    IF Len(ps) = 0 THEN <<>>
    ELSE IF Len(ps) = 1 THEN <<ps[1]>>
    ELSE <<ps[1], ", ">> \o JoinRecords(Tail(ps))

\* f"{properties}" of a list: brackets, the items, ", " between them.
PyStrList(ps) ==
    <<"[">> \o JoinRecords(ps) \o <<"]">>

Headers ==
    <<"SELECTED PROPERTIES", "BEST VALUE ANALYSIS", "LOCATION INSIGHTS",
      "RECOMMENDATIONS", "NEGOTIATION TIPS">>

\* A mutant of SummaryPrompt's header block: two headers change places.
HeaderAt_Swapped(k) ==
    <<"SELECTED PROPERTIES", "LOCATION INSIGHTS", "BEST VALUE ANALYSIS",
      "RECOMMENDATIONS", "NEGOTIATION TIPS">>[k]

\* The k-th header line of the template (line 146, 154, 160, 163, 168).
HeaderAt(k) ==
    Headers[k]

\* The f-string of line 131-172, line by line.
SummaryPrompt(a, ps) ==
    << <<"As a real estate expert, analyze these properties and market trends:">>,
       <<>>,
       <<"Properties Found in json format:">>,
       PyStrList(ps),
       <<>>,
       <<"**IMPORTANT INSTRUCTIONS:**">>,
       <<"1. ONLY analyze properties from the above JSON data that match the user's requirements:">>,
       <<"- Property Category: ", a.property_category>>,
       <<"- Property Type: ", a.property_type>>,
       <<"- Maximum Price: ">> \o PyStr(a.max_price) \o <<" SGD">>,
       <<"2. DO NOT create new categories or property types">>,
       <<"3. From the matching properties, select 5-6 properties with prices closest to ">>
           \o PyStr(a.max_price) \o <<" SGD">>,
       <<>>,
       <<"Please provide your analysis in this format:">>,
       <<>>,
       <<HeaderAt(1)>>,
       <<"List only 5-6 best matching properties with prices closest to ">>
           \o PyStr(a.max_price) \o <<" SGD">>,
       <<"For each property include:">>,
       <<"- Name and Location">>,
       <<"- Price (with value analysis)">>,
       <<"- Key Features">>,
       <<"- Pros and Cons">>,
       <<>>,
       <<HeaderAt(2)>>,
       <<"Compare the selected properties based on:">>,
       <<"- Price per sq ft">>,
       <<"- Location advantage">>,
       <<"- Amenities offered">>,
       <<>>,
       <<HeaderAt(3)>>,
       <<"Specific advantages of the areas where selected properties are located">>,
       <<>>,
       <<HeaderAt(4)>>,
       <<"Top 3 properties from the selection with reasoning">>,
       <<"Investment potential">>,
       <<"Points to consider before purchase">>,
       <<>>,
       <<HeaderAt(5)>>,
       <<"Property-specific negotiation strategies">>,
       <<>>,
       <<"Format your response in a clear, structured way using the above sections.">>,
       <<>> >>

(***************************************************************************)
(* find_properties as a process: one step up to each remote call            *)
(***************************************************************************)
NoArgs ==
    [city |-> <<>>, max_price |-> 1000, property_category |-> "Residential",
     property_type |-> "HDB", min_size |-> None, max_size |-> None,
     bedrooms |-> None]

\* Arguments a caller of the method can pass (line 53-62).
CoreArgs ==
    [city : Cities, max_price : Prices, property_category : Categories,
     property_type : Types, min_size : MinSizes, max_size : MaxSizes,
     bedrooms : Bedrooms]

ExtractCall(u, p) ==
    [svc |-> "extract", urls |-> u, prompt |-> p]

SummarizeCall(p) ==
    [svc |-> "summarize", urls |-> <<>>, prompt |-> p]

\* No invocation in progress and none finished in this script run.
CoreIdle ==
    /\ pc' = "idle"
    /\ args' = NoArgs
    /\ pro_type' = <<>>
    /\ urls' = <<>>
    /\ prompt' = <<>>
    /\ raw_response' = NoResponse
    /\ properties' = <<>>
    /\ calls' = <<>>
    /\ log' = <<>>
    /\ result' = ""
    /\ error' = ""

\* Line 64-118: map the category, build the URL list and the prompt, and
\* issue the extraction call; or raise KeyError at line 76.
InvokeCore(a) ==
    /\ args' = a
    /\ raw_response' = NoResponse
    /\ properties' = <<>>
    /\ result' = ""
    /\ IF CategoryRaises(a.property_category)
       THEN /\ pc' = "raised"
            /\ error' = "KeyError"
            /\ pro_type' = <<>>
            /\ urls' = <<>>
            /\ prompt' = <<>>
            /\ calls' = <<>>
            /\ log' = <<>>
       ELSE /\ pc' = "extracting"
            /\ error' = ""
            /\ pro_type' = MapProType(a.property_category, a.property_type)
            /\ urls' = BuildUrls(a, pro_type')
            /\ prompt' = ExtractionPrompt(a)
            /\ calls' = <<ExtractCall(urls', prompt')>>
            /\ log' = <<"extract.call">>

\* Line 112-173: firecrawl.extract returns resp; normalise it, build the
\* summarization prompt and issue agent.run; or raise KeyError at line 123.
ExtractReturnsCore(resp) ==
    /\ pc = "extracting"
    /\ raw_response' = resp
    /\ pc' = AfterExtract(resp)
    /\ properties' = IF NormalizeRaises(resp) THEN <<>> ELSE Normalize(resp)
    /\ error' = IF pc' = "raised" THEN "KeyError" ELSE ""
    /\ calls' = IF pc' = "summarizing"
                THEN Append(calls, SummarizeCall(SummaryPrompt(args, properties')))
                ELSE calls
    /\ log' = log \o <<"extract.return">>
                  \o (IF pc' = "summarizing" THEN <<"summarize.call">> ELSE <<>>)
    /\ UNCHANGED <<args, pro_type, urls, prompt, result>>

\* Line 112-118: firecrawl.extract raises.
ExtractRaisesCore ==
    /\ pc = "extracting"
    /\ IF ErrorCaught("extract")
       THEN /\ pc' = "summarizing"
            /\ error' = ""
            /\ calls' = Append(calls, SummarizeCall(SummaryPrompt(args, <<>>)))
            /\ log' = log \o <<"extract.raise", "summarize.call">>
       ELSE /\ pc' = "raised"
            /\ error' = "TransportError"
            /\ calls' = calls
            /\ log' = log \o <<"extract.raise">>
    /\ UNCHANGED <<args, pro_type, urls, prompt, raw_response, properties, result>>

\* Line 130-175: agent.run returns; its content is returned as it is.
SummarizeReturnsCore(content) ==
    /\ pc = "summarizing"
    /\ pc' = "returned"
    /\ result' = content
    /\ log' = log \o <<"summarize.return">>
    /\ UNCHANGED <<args, pro_type, urls, prompt, raw_response, properties,
                   calls, error>>

\* Line 130-173: agent.run raises.
SummarizeRaisesCore ==
    /\ pc = "summarizing"
    /\ IF ErrorCaught("summarize")
       THEN /\ pc' = "returned"
            /\ error' = ""
       ELSE /\ pc' = "raised"
            /\ error' = "ServiceError"
    /\ log' = log \o <<"summarize.raise">>
    /\ UNCHANGED <<args, pro_type, urls, prompt, raw_response, properties,
                   calls, result>>

(***************************************************************************)
(* The method called directly                                               *)
(***************************************************************************)
Invoke(a) ==
    /\ pc = "idle"
    /\ InvokeCore(a)
    /\ UNCHANGED uiVars

ExtractReturns(resp) ==
    /\ ExtractReturnsCore(resp)
    /\ UNCHANGED uiVars

ExtractRaises ==
    /\ ExtractRaisesCore
    /\ UNCHANGED uiVars

SummarizeReturns(content) ==
    /\ SummarizeReturnsCore(content)
    /\ UNCHANGED uiVars

SummarizeRaises ==
    /\ SummarizeRaisesCore
    /\ UNCHANGED uiVars

\* The caller has taken the report or the exception: the frame of the
\* invocation is gone (no state is kept between invocations).
Leave ==
    /\ pc \in {"returned", "raised"}
    /\ CoreIdle
    /\ UNCHANGED uiVars

NoUi ==
    [phase |-> "idle", button |-> FALSE, city |-> <<>>, fk |-> "", ok |-> "",
     errors |-> <<>>, rendered |-> <<>>, successes |-> <<>>]

NoAgent ==
    [exists |-> FALSE, fk |-> "", ok |-> ""]

InitCore ==
    /\ pc = "idle"
    /\ args = NoArgs
    /\ pro_type = <<>>
    /\ urls = <<>>
    /\ prompt = <<>>
    /\ raw_response = NoResponse
    /\ properties = <<>>
    /\ calls = <<>>
    /\ log = <<>>
    /\ result = ""
    /\ error = ""

Init ==
    /\ InitCore
    /\ env = [F |-> "", O |-> ""]
    /\ widgets = [F |-> "", O |-> ""]
    /\ agent = NoAgent
    /\ ui = NoUi

Next ==
    \/ \E a \in CoreArgs : Invoke(a)
    \/ ExtractRaises
    \/ \E resp \in Responses : ExtractReturns(resp)
    \/ \E content \in Contents : SummarizeReturns(content)
    \/ SummarizeRaises
    \/ Leave

Spec == Init /\ [][Next]_vars

(***************************************************************************)
(* main(): one Streamlit session, one script run per rerun (line 177-335)   *)
(***************************************************************************)
\* A key is a text; "" stands for both an unset variable and an empty input.
Keys == {"", "k"}

\* What the form widgets can hand to find_properties (line 240-296).
UiArgs ==
    [city : {<<>>, <<"P", "u">>}, max_price : {500000},
     property_category : {"Residential", "Commercial"},
     property_type : {"HDB", "Condo", "Landed"},
     min_size : {None}, max_size : {None}, bedrooms : {None, 2}]

\* The methods class PropertyFindingAgent defines (line 42-175).
AgentMethods == {"__init__", "find_properties"}

KeysError == <<"Please enter your API keys in the sidebar first!">>

CityError == <<"Please enter a city name!">>

\* Line 335: st.error(f"An error occurred: {str(e)}")
CatchAll(e) == <<"An error occurred: ", e>>

\* Line 307-335 once find_properties has ended in p (with report r or
\* exception e): render the report, then call get_location_trends; any
\* exception of the try block is shown by the one except clause.
AfterSearch(u, p, r, e) ==
    IF p = "raised"
    THEN [u EXCEPT !.phase = "done", !.errors = <<CatchAll(e)>>]
    ELSE IF p = "returned"
    THEN IF "get_location_trends" \in AgentMethods
         THEN [u EXCEPT !.phase = "done",
                        !.successes = <<"Property search completed!",
                                        "Location analysis completed!">>,
                        !.rendered = <<r>>]
         ELSE [u EXCEPT !.phase = "done",
                        !.successes = <<"Property search completed!">>,
                        !.rendered = <<r>>,
                        !.errors = <<CatchAll("AttributeError")>>]
    ELSE u

\* Line 197-217: the key as main() sees it in this run.
EffectiveKey(envKey, input) ==
    IF envKey # "" THEN envKey ELSE input

\* Line 219-226: session_state.property_agent after the sidebar block.
AgentAfter(old, fk, ok) ==
    IF fk # "" /\ ok # ""
    THEN [exists |-> TRUE, fk |-> fk, ok |-> ok]
    ELSE old

\* One script run of main() up to its end or to the first remote call:
\* the user has set the two key inputs to wf and wo and the form to a, and
\* has pressed Start Search or not.
Rerun(wf, wo, a, button) ==
    /\ ui.phase # "searching"
    /\ (env.F # "" => wf = widgets.F)
    /\ (env.O # "" => wo = widgets.O)
    /\ widgets' = [F |-> wf, O |-> wo]
    /\ env' = env
    /\ LET fk == EffectiveKey(env.F, wf)
           ok == EffectiveKey(env.O, wo)
           run == [phase |-> "done", button |-> button, city |-> a.city,
                   fk |-> fk, ok |-> ok,
                   errors |-> <<>>, rendered |-> <<>>, successes |-> <<>>]
       IN  /\ agent' = AgentAfter(agent, fk, ok)
           /\ IF ~button
              THEN /\ ui' = run
                   /\ CoreIdle
              ELSE IF ~agent'.exists
              THEN /\ ui' = [run EXCEPT !.errors = <<KeysError>>]
                   /\ CoreIdle
              ELSE IF a.city = <<>>
              THEN /\ ui' = [run EXCEPT !.errors = <<CityError>>]
                   /\ CoreIdle
              ELSE /\ InvokeCore(a)
                   /\ ui' = AfterSearch([run EXCEPT !.phase = "searching"],
                                        pc', result', error')

UiExtractReturns(resp) ==
    /\ ui.phase = "searching"
    /\ ExtractReturnsCore(resp)
    /\ ui' = AfterSearch(ui, pc', result', error')
    /\ UNCHANGED <<env, widgets, agent>>

UiExtractRaises ==
    /\ ui.phase = "searching"
    /\ ExtractRaisesCore
    /\ ui' = AfterSearch(ui, pc', result', error')
    /\ UNCHANGED <<env, widgets, agent>>

UiSummarizeReturns(content) ==
    /\ ui.phase = "searching"
    /\ SummarizeReturnsCore(content)
    /\ ui' = AfterSearch(ui, pc', result', error')
    /\ UNCHANGED <<env, widgets, agent>>

UiSummarizeRaises ==
    /\ ui.phase = "searching"
    /\ SummarizeRaisesCore
    /\ ui' = AfterSearch(ui, pc', result', error')
    /\ UNCHANGED <<env, widgets, agent>>

InitUI ==
    /\ InitCore
    /\ env \in [F : Keys, O : Keys]
    /\ widgets = [F |-> "", O |-> ""]
    /\ agent = NoAgent
    /\ ui = NoUi

NextUI ==
    \/ \E wf \in Keys, wo \in Keys, a \in UiArgs, button \in BOOLEAN :
          Rerun(wf, wo, a, button)
    \/ UiExtractRaises
    \/ \E resp \in Responses : UiExtractReturns(resp)
    \/ \E content \in Contents : UiSummarizeReturns(content)
    \/ UiSummarizeRaises

SpecUI == InitUI /\ [][NextUI]_vars

(***************************************************************************)
(* Reading the state                                                        *)
(***************************************************************************)
\* The extraction call of this invocation has come back with a response.
ExtractionReturned ==
    Len(log) >= 2 /\ log[2] = "extract.return"

\* The extraction call of this invocation has raised.
ExtractionRaised ==
    Len(log) >= 2 /\ log[2] = "extract.raise"

\* The extraction step has produced the record sequence ps and the
\* pipeline has gone on with it.
ExtractionYields(ps) ==
    /\ Len(log) >= 3
    /\ log[3] = "summarize.call"
    /\ properties = ps

Count(seq, x) ==
    Cardinality({i \in 1..Len(seq) : seq[i] = x})

Services ==
    [i \in 1..Len(calls) |-> calls[i].svc]

C2_AsStated ==
    (pc \in {"returned", "raised"}
        /\ args.property_category \in {"Residential", "Commercial"})
       => /\ Services = <<"extract", "summarize">>
          /\ SubSeq(log, 1, 3) = <<"extract.call", "extract.return", "summarize.call">>

\* C2 amended: every invocation that returns a report has performed exactly
\* two remote calls, extraction then summarization; whenever the extraction
\* call returns a response whose records can be read (in particular
\* {success: false} or zero records) the summarization call is issued, right
\* after that return and with no short-circuit; an invocation never makes
\* more than these two calls, and it makes fewer only when it raises
\* (unmapped category: none; extraction error or unreadable response: one).
C2_Amended ==
    /\ pc = "returned"
          => /\ Services = <<"extract", "summarize">>
             /\ log = <<"extract.call", "extract.return", "summarize.call",
                        "summarize.return">>
    /\ (ExtractionReturned
           /\ ~(raw_response.isDict /\ raw_response.success /\ ~raw_response.hasData))
          => /\ Services = <<"extract", "summarize">>
             /\ SubSeq(log, 1, 3) = <<"extract.call", "extract.return", "summarize.call">>
    /\ \A i \in 1..Len(log) :
          log[i] = "summarize.call" => (i = 3 /\ log[2] = "extract.return")
    /\ Len(calls) <= 2
    /\ Len(calls) < 2 => pc \in {"idle", "extracting", "raised"}

\* A report has been returned although the extraction response said
\* success: false.
C2_Witness ==
    /\ pc = "returned"
    /\ raw_response.isDict /\ ~raw_response.success
    /\ properties = <<>>
    /\ Len(calls) = 2

(***************************************************************************)
(* C3                                                                       *)
(***************************************************************************)
\* C3: with each size absent or a positive number and bedrooms absent or a
\* number from 0 on, the extraction prompt has exactly one extra line per
\* present optional filter (present: not None, so bedrooms 0 is present), in
\* the order minimum size, maximum size, bedrooms, and no extra line when
\* all three are absent.
C3_AsStated ==
    (pc = "extracting" /\ args.min_size # 0 /\ args.max_size # 0)
       => SubSeq(prompt, Len(BasePrompt(args)) + 1, Len(prompt))
             = (IF args.min_size # None THEN <<MinSizeLine(args.min_size)>> ELSE <<>>)
               \o (IF args.max_size # None THEN <<MaxSizeLine(args.max_size)>> ELSE <<>>)
               \o (IF args.bedrooms # None THEN <<BedroomsLine(args.bedrooms)>> ELSE <<>>)

(***************************************************************************)
(* C4                                                                       *)
(***************************************************************************)
\* C4: an error raised by the extraction call or by the summarization call
\* ends find_properties with that error raised: no report is returned, the
\* raise is the last remote-call event of the invocation, and each service
\* is called at most once.
C4_ErrorsPropagate ==
    /\ \A i \in 1..Len(log) :
          /\ log[i] = "extract.raise"
                => (i = Len(log) /\ pc = "raised" /\ error = "TransportError"
                      /\ result = "")
          /\ log[i] = "summarize.raise"
                => (i = Len(log) /\ pc = "raised" /\ error = "ServiceError"
                      /\ result = "")
    /\ Count(log, "extract.call") <= 1
    /\ Count(log, "summarize.call") <= 1
    /\ Count(Services, "extract") <= 1
    /\ Count(Services, "summarize") <= 1

\* The summarization call has raised after a successful extraction.
C4_Witness ==
    /\ pc = "raised"
    /\ log = <<"extract.call", "extract.return", "summarize.call", "summarize.raise">>
    /\ properties # <<>>

(***************************************************************************)
(* C5                                                                       *)
(***************************************************************************)
\* C5: an invocation with a category that is neither Residential nor
\* Commercial ends with an error raised, maps no code, and calls neither
\* remote service.
C5_InvalidCategory ==
    (pc # "idle" /\ args.property_category \notin {"Residential", "Commercial"})
       => /\ pc = "raised"
          /\ error = "KeyError"
          /\ pro_type = <<>>
          /\ calls = <<>>
          /\ log = <<>>
          /\ result = ""

\* An invocation with category Industrial has ended.
C5_Witness ==
    /\ pc = "raised"
    /\ args.property_category = "Industrial"

(***************************************************************************)
(* C6                                                                       *)
(***************************************************************************)
\* C6: the mapped code is H, N, L for Residential HDB, Condo, Landed, H for
\* any other Residential type, and com for Commercial whatever the type.
C6_Mapping ==
    (pc # "idle" /\ args.property_category \in {"Residential", "Commercial"})
       => pro_type =
             (IF args.property_category = "Commercial" THEN <<"c", "o", "m">>
              ELSE IF args.property_type = "HDB" THEN <<"H">>
              ELSE IF args.property_type = "Condo" THEN <<"N">>
              ELSE IF args.property_type = "Landed" THEN <<"L">>
              ELSE <<"H">>)

\* A Residential type outside the three known ones has been mapped.
C6_Witness ==
    /\ pc = "extracting"
    /\ args.property_category = "Residential"
    /\ args.property_type = "Bungalow"
    /\ pro_type = <<"H">>

(***************************************************************************)
(* C8                                                                       *)
(***************************************************************************)
\* The text that follows the template piece key in url, up to the next
\* template piece.
ParamValue(url, key) ==
    LET i == CHOOSE k \in 1..Len(url) : url[k] = key
        ends == {j \in (i + 1)..Len(url) : url[j] \in UrlKeys}
        stop == IF ends = {} THEN Len(url) + 1
                ELSE CHOOSE j \in ends : \A m \in ends : j <= m
    IN  SubSeq(url, i + 1, stop - 1)

HasParam(url, key) ==
    Count(url, key) = 1

\* The lower-cased city, the decimal text of a number, written out.
LowerCased(city) ==
    CASE city = <<"P", "u">> -> <<"p", "u">>
      [] city = <<"u", "P">> -> <<"u", "p">>
      [] OTHER -> <<>>

Decimal(n) ==
    CASE n = 0 -> <<"0">>
      [] n = 2 -> <<"2">>
      [] n = 500 -> <<"5", "0", "0">>
      [] n = 1000 -> <<"1", "0", "0", "0">>
      [] n = 500000 -> <<"5", "0", "0", "0", "0", "0">>

\* C8: the extraction call is given exactly one URL; its _freetextDisplay
\* value is the lower-cased city, its maxPrice value the max_price as
\* written, its propertyTypeGroup value the mapped code; bedrooms, minSize
\* and maxSize are parameters of the URL whether the filter was supplied
\* (then with its value) or not.
C8_Url ==
    \A i \in 1..Len(calls) :
       calls[i].svc = "extract"
          => /\ Len(calls[i].urls) = 1
             /\ calls[i].urls = urls
             /\ LET url == calls[i].urls[1]
                IN  /\ \A k \in UrlKeys : HasParam(url, k)
                    /\ ParamValue(url, "&_freetextDisplay=") = LowerCased(args.city)
                    /\ ParamValue(url, "&maxPrice=") = Decimal(args.max_price)
                    /\ ParamValue(url, "&propertyTypeGroup=") = pro_type
                    /\ args.bedrooms # None
                          => ParamValue(url, "&bedrooms=") = Decimal(args.bedrooms)
                    /\ args.min_size # None
                          => ParamValue(url, "&minSize=") = Decimal(args.min_size)
                    /\ args.max_size # None
                          => ParamValue(url, "&maxSize=") = Decimal(args.max_size)

\* A URL has been built for a mixed-case city with no optional filter.
C8_Witness ==
    /\ pc = "extracting"
    /\ args.city = <<"P", "u">>
    /\ args.min_size = None /\ args.max_size = None /\ args.bedrooms = None
    /\ Len(urls) = 1
    /\ HasParam(urls[1], "&bedrooms=")
    /\ ParamValue(urls[1], "&_freetextDisplay=") = <<"p", "u">>

(***************************************************************************)
(* C9                                                                       *)
(***************************************************************************)
\* The records a line of text embeds, in order.
RECURSIVE RecordsIn(_)
RecordsIn(line) ==
    IF line = <<>> THEN <<>>
    ELSE (IF Head(line) \in Records THEN <<Head(line)>> ELSE <<>>)
         \o RecordsIn(Tail(line))

\* The lines of p that are one of the five section headers, in order.
RECURSIVE HeaderLines(_)
HeaderLines(p) ==
    IF p = <<>> THEN <<>>
    ELSE (IF \E k \in 1..5 : Head(p) = <<Headers[k]>> THEN Head(p) ELSE <<>>)
         \o HeaderLines(Tail(p))

\* C9: the prompt sent to the summarization service embeds exactly the
\* record sequence the extraction step produced (the empty one included) and
\* holds the five section headers, each once, in the order Selected
\* Properties, Best Value Analysis, Location Insights, Recommendations,
\* Negotiation Tips.
C9_SummaryPrompt ==
    \A i \in 1..Len(calls) :
       calls[i].svc = "summarize"
          => /\ Cardinality({n \in 1..Len(calls[i].prompt) :
                                Head(calls[i].prompt[n] \o <<"">>) = "["}) = 1
             /\ \E n \in 1..Len(calls[i].prompt) :
                   LET line == calls[i].prompt[n]
                   IN  /\ Len(line) >= 2
                       /\ line[1] = "["
                       /\ line[Len(line)] = "]"
                       /\ RecordsIn(line) = properties
                       /\ Len(line) = 2 + Len(properties)
                                        + (IF properties = <<>> THEN 0
                                           ELSE Len(properties) - 1)
             /\ HeaderLines(calls[i].prompt)
                   = <<"SELECTED PROPERTIES", "BEST VALUE ANALYSIS",
                       "LOCATION INSIGHTS", "RECOMMENDATIONS", "NEGOTIATION TIPS">>

\* A summarization prompt has been sent for an empty record sequence.
C9_Witness ==
    /\ Len(calls) = 2
    /\ calls[2].svc = "summarize"
    /\ ExtractionReturned
    /\ properties = <<>>
    /\ calls[2].prompt[4] = <<"[", "]">>

(***************************************************************************)
(* C7                                                                       *)
(***************************************************************************)
\* C7: a search started (Start Search pressed with a city entered) in a
\* script run in which the Firecrawl key or the OpenAI key is missing shows
\* the enter-your-API-keys error and issues no remote call.
C7_AsStated ==
    (ui.button /\ ui.city # <<>> /\ (ui.fk = "" \/ ui.ok = ""))
       => /\ ui.errors = <<KeysError>>
          /\ calls = <<>>
          /\ log = <<>>

(***************************************************************************)
(* C10                                                                      *)
(***************************************************************************)
\* C10: a search that has called find_properties ends either with the
\* report rendered, the location-trends step completed and no error shown,
\* or with an error raised, nothing rendered and one catch-all error shown.
C10_AsStated ==
    (ui.phase = "done" /\ ui.button /\ pc \in {"returned", "raised"})
       => \/ /\ pc = "returned"
             /\ ui.rendered = <<result>>
             /\ "Location analysis completed!" \in {ui.successes[i] : i \in 1..Len(ui.successes)}
             /\ ui.errors = <<>>
          \/ /\ pc = "raised"
             /\ ui.rendered = <<>>
             /\ ui.errors = <<CatchAll(error)>>

====
